---- MODULE Spec2Model ----
(***************************************************************************)
(* Energy-management co-simulation: the dispatch controller                *)
(* (controller_ems.py), the EV status derivation (ev_battery_state.py),    *)
(* the EV fleet set-up (ev_request.py) and the orchestrator loop           *)
(* (cosim_framework.py, Manager.run_simulation).                           *)
(*                                                                         *)
(* Quantities.  Python floats are held as fixed-point integers counting    *)
(* HALF units: a power of 50 W is 100, an energy of 40.5 Wh is 81.  A      *)
(* product with the efficiency 0.95 is rounded down to the next half unit. *)
(* Money is held in half currency units (price x half-Wh).  Voltages are   *)
(* held in hundredths of a p.u.                                            *)
(***************************************************************************)
EXTENDS Integers, Sequences, FiniteSets

(* ------------------------------------------------------------------ *)
(* State of a run (cosim_framework.py: Manager.run_simulation)         *)
(* ------------------------------------------------------------------ *)
VARIABLES
    ev_config,                \* the cars of configurations/ev_config.yaml
    pc,                       \* "run", "done" (loop left normally), "error" (an exception ended the run)
    time_index,               \* loop counter
    money_array,              \* budget series
    power_setpoint_array,     \* setpoint series
    storage_array,            \* storage SoC series
    battery_soc,              \* battery.soc, the BatteryStorage object of the run
    battery_capacity_arrays,  \* per car: the charge trace
    status_cars,              \* per car: the status series
    cond,                     \* what the collaborators returned in the latest step
    grid_setpoint,            \* the setpoint handed to the grid model in the latest step
    branch                    \* the branch the latest controller call took

vars == <<ev_config, pc, time_index, money_array, power_setpoint_array, storage_array, battery_soc,
          battery_capacity_arrays, status_cars, cond, grid_setpoint, branch>>

Min(a, b) == IF a <= b THEN a ELSE b
Max(a, b) == IF a >= b THEN a ELSE b

(* ------------------------------------------------------------------ *)
(* Bounds of the model                                                 *)
(* ------------------------------------------------------------------ *)
\* number of loop iterations, int((end_time - start_time) / delta_t)
NumSteps == 4
\* ev_request.py: hours_per_day = 24, num_days = 20, scaled down
hours_per_day == 2
num_days == 2

(* ------------------------------------------------------------------ *)
(* Configuration read by the program                                   *)
(* ------------------------------------------------------------------ *)
\* ev_request.py:27
time_steps == hours_per_day * num_days

\* configurations/ev_config.yaml: the fleets a run may be configured with,
\* one entry per car (half units; arrival and departure are hours of the day)
Fleets ==
    { [battery_capacity |-> <<81, 40>>, charging_port |-> <<100, 40>>,
       arrival_time |-> <<1, 0>>, departure_time |-> <<0, 0>>],
      [battery_capacity |-> <<81, 40>>, charging_port |-> <<100, 40>>,
       arrival_time |-> <<0, 0>>, departure_time |-> <<1, 0>>],
      [battery_capacity |-> <<81, 120>>, charging_port |-> <<100, 40>>,
       arrival_time |-> <<1, 0>>, departure_time |-> <<0, 0>>] }

\* the lists ev_generate_from_config returns
battery_caps   == ev_config.battery_capacity
charging_ports == ev_config.charging_port
arrival_time   == ev_config.arrival_time
departure_time == ev_config.departure_time
Cars == 1..Len(battery_caps)

\* configurations/controller_add_config.yaml (half units)
storage_capacity == 120
grid_capacity    == 30
initial_money    == 100
price_high       == 2
price_low        == 2

\* controller_settings (hundredths of a p.u.; half units)
voltage_min == 90
voltage_max == 110
p_adjust_step_size_voltage == 10

\* BatteryStorage(storage_capacity, 0.95, 0.95, 0): 0.95 = 19/20
EffNum == 19
EffDen == 20
initial_soc == 0

\* controller_ems.py: delta_t = 1
delta_t == 1

(* ------------------------------------------------------------------ *)
(* Values the collaborators may return in a step                       *)
(* ------------------------------------------------------------------ *)
Voltages    == {89, 100, 111}
Prices      == {1, 2, 3}
\* <<solar, wind>>
Productions == {<<0, 0>>, <<0, 20>>, <<0, 40>>, <<160, 40>>}

(* ------------------------------------------------------------------ *)
(* ev_request.py                                                       *)
(* ------------------------------------------------------------------ *)
\* faulty variant: a window that spans midnight is left empty
daily_avail_day_only(i, h) ==
    IF arrival_time[i] < departure_time[i]
    THEN (IF arrival_time[i] <= h /\ h < departure_time[i] THEN 3 ELSE 2)
    ELSE 2

\* daily_avail: 2 = away, 3 = at the charger
daily_avail(i, h) ==
    IF arrival_time[i] < departure_time[i]
    THEN (IF arrival_time[i] <= h /\ h < departure_time[i] THEN 3 ELSE 2)
    ELSE (IF h >= arrival_time[i] \/ h < departure_time[i] THEN 3 ELSE 2)

\* np.tile(daily_avail, num_days)
availability_arrays(i, t) == daily_avail(i, t % hours_per_day)

\* np.zeros(time_steps)
ZeroArray == [k \in 0..(time_steps - 1) |-> 0]

(* ------------------------------------------------------------------ *)
(* ev_battery_state.py                                                 *)
(* ------------------------------------------------------------------ *)
prev_charge(time_step, current_battery, i) ==
    IF time_step > 0 THEN current_battery[i][time_step - 1] ELSE 0

car_state(car_status, prev, cap) ==
    IF car_status = 2 THEN 0
    ELSE IF car_status = 3 THEN (IF prev < cap THEN 1 ELSE 5)
    ELSE 0

ev_state(time_step, current_battery) ==
    [i \in Cars |-> car_state(availability_arrays(i, time_step),
                              prev_charge(time_step, current_battery, i),
                              battery_caps[i])]

(* ------------------------------------------------------------------ *)
(* BatteryStorage (battery_storage.py)                                 *)
(* ------------------------------------------------------------------ *)
get_remaining_capacity(soc) == storage_capacity - soc

\* energy absorbed by a charge request
charge_energy(amount_w, dt) == (amount_w * dt * EffNum) \div EffDen

\* soc after charge(amount_w, dt)
charge(soc, amount_w, dt) == Min(storage_capacity, soc + charge_energy(amount_w, dt))

\* energy a discharge request takes out of the store
discharge_energy(amount_w, dt) == (amount_w * dt * EffDen) \div EffNum

\* faulty variant: a discharge that does not stop at an empty store
discharge_unclamped(soc, amount_w, dt) == soc - discharge_energy(amount_w, dt)

\* soc after discharge(amount_w, dt)
discharge(soc, amount_w, dt) == Max(0, soc - discharge_energy(amount_w, dt))

\* value returned by discharge(amount_w, dt): the power actually delivered
discharge_actual(soc, amount_w, dt) ==
    IF discharge_energy(amount_w, dt) <= soc
    THEN amount_w
    ELSE (soc * EffNum) \div (EffDen * dt)

(* ------------------------------------------------------------------ *)
(* controller_ems.py: controller_multiple_cars                         *)
(* ------------------------------------------------------------------ *)
\* int(x) on a non-negative value held in half units
PyInt(x) == (x \div 2) * 2

\* ev_caps = [int(cap) for cap in ev_caps]
ev_caps(i) == PyInt(battery_caps[i])

\* faulty variant: the adjusted setpoint is kept within two steps of 0
VoltageAdjust_bounded(voltage, power_set_point) ==
    IF voltage < voltage_min
    THEN Min(power_set_point + p_adjust_step_size_voltage, 2 * p_adjust_step_size_voltage)
    ELSE IF voltage > voltage_max
    THEN Max(power_set_point - p_adjust_step_size_voltage, -2 * p_adjust_step_size_voltage)
    ELSE power_set_point

\* faulty variant: the adjustment has the wrong sign
VoltageAdjust_swapped(voltage, power_set_point) ==
    IF voltage < voltage_min THEN power_set_point - p_adjust_step_size_voltage
    ELSE IF voltage > voltage_max THEN power_set_point + p_adjust_step_size_voltage
    ELSE power_set_point

\* the setpoint after the voltage adjustment
VoltageAdjust(voltage, power_set_point) ==
    IF voltage < voltage_min THEN power_set_point + p_adjust_step_size_voltage
    ELSE IF voltage > voltage_max THEN power_set_point - p_adjust_step_size_voltage
    ELSE power_set_point

\* not (voltage_min <= voltage <= voltage_max)
OutOfBand(voltage) == ~(voltage_min <= voltage /\ voltage <= voltage_max)

charging_indices(status) == {i \in Cars : status[i] = 1}

RECURSIVE SumPorts(_)
SumPorts(S) ==
    IF S = {} THEN 0
    ELSE LET i == CHOOSE x \in S : TRUE
         IN  charging_ports[i] + SumPorts(S \ {i})

\* total_nominal = sum(power_charging_port[i] for i in charging_indices)
total_nominal(status) == SumPorts(charging_indices(status))

\* total_power_available = total_generated + storage_obj.get_soc() + grid_capacity
total_power_available(total_generated, soc) == total_generated + soc + grid_capacity

\* faulty variant: Case 1 needs production strictly above the demand
FiredCases_strict(nominal, generated, soc) ==
    IF nominal < generated THEN {"case1"}
    ELSE IF nominal <= generated + soc THEN {"case2"}
    ELSE IF nominal <= total_power_available(generated, soc) THEN {"case3"}
    ELSE IF nominal > total_power_available(generated, soc) THEN {"case4"}
    ELSE {}

\* faulty variant: the grid case is tested before the storage case
FiredCases_swapped(nominal, generated, soc) ==
    IF nominal <= generated THEN {"case1"}
    ELSE IF nominal <= total_power_available(generated, soc) THEN {"case3"}
    ELSE IF nominal <= generated + soc THEN {"case2"}
    ELSE IF nominal > total_power_available(generated, soc) THEN {"case4"}
    ELSE {}

\* the if / elif chain of the charging stage: the branches that run
FiredCases(nominal, generated, soc) ==
    IF nominal <= generated THEN {"case1"}
    ELSE IF nominal <= generated + soc THEN {"case2"}
    ELSE IF nominal <= total_power_available(generated, soc) THEN {"case3"}
    ELSE IF nominal > total_power_available(generated, soc) THEN {"case4"}
    ELSE {}

\* faulty variant: the charged value is not clamped to the capacity
ChargeFull_unclamped(current, port, cap) == current + port

\* Case 1, 2, 3: min(battery_capacity[i][t] + power_charging_port[i], ev_caps[i])
ChargeFull(current, port, cap) == Min(current + port, cap)

\* faulty variant: Case 4 does not curtail
Allocated_full(port, total_requested, available_power) == port

\* Case 4: ratio * available_power, ratio = port / total_requested
Allocated(port, total_requested, available_power) ==
    (port * available_power) \div total_requested

\* Case 4: min(battery_capacity[i][t] + allocated, ev_caps[i])
ChargeCurtailed(current, allocated, cap) == Min(current + allocated, cap)

\* Case 3: grid_used = min(grid_capacity, remaining_deficit)
GridUsed(remaining_deficit) == Min(grid_capacity, remaining_deficit)

\* faulty variant: everything left over is sent to the store
ToStore_all(excess, room) == excess

\* Case 1 and the low-price store: to_store = min(excess, room)
ToStore(excess, room) == Min(excess, room)

\* faulty variant: a car that is away keeps its charge
NonChargingValue_keep(st, current) == current

\* "Update Non-Charging EVs": the value written at t+1 for a car that is
\* away (0) or full (5)
NonChargingValue(st, current) == IF st = 0 THEN 0 ELSE current

\* faulty variant: production is also sold at a price equal to price_high
NoEvStage_sell_at_high(money, soc, total_power, current_price) ==
    IF current_price >= price_high
    THEN [money |-> money + total_power * current_price, soc |-> soc,
          branch |-> "sell"]
    ELSE IF current_price < price_low
    THEN IF soc >= storage_capacity
         THEN [money |-> money + total_power * current_price, soc |-> soc,
               branch |-> "sell_full"]
         ELSE LET room     == get_remaining_capacity(soc)
                  to_store == ToStore(total_power, room)
              IN  [money |-> IF total_power > to_store
                             THEN money + (total_power - to_store) * current_price
                             ELSE money,
                   soc |-> charge(soc, to_store, delta_t),
                   branch |-> "store"]
    ELSE [money |-> money, soc |-> soc, branch |-> "idle"]

\* the no-EV stage: new money, new soc and the branch taken
NoEvStage(money, soc, total_power, current_price) ==
    IF current_price > price_high
    THEN [money |-> money + total_power * current_price, soc |-> soc,
          branch |-> "sell"]
    ELSE IF current_price < price_low
    THEN IF soc >= storage_capacity
         THEN [money |-> money + total_power * current_price, soc |-> soc,
               branch |-> "sell_full"]
         ELSE LET room     == get_remaining_capacity(soc)
                  to_store == ToStore(total_power, room)
              IN  [money |-> IF total_power > to_store
                             THEN money + (total_power - to_store) * current_price
                             ELSE money,
                   soc |-> charge(soc, to_store, delta_t),
                   branch |-> "store"]
    ELSE [money |-> money, soc |-> soc, branch |-> "idle"]

\* faulty variant: Case 4 buys nothing from the grid
CaseMoney_case4_free(case, money, soc, nominal, generated, current_price) ==
    IF case = "case1"
    THEN LET excess   == generated - nominal
             room     == get_remaining_capacity(soc)
             to_store == ToStore(excess, room)
         IN  IF excess > room THEN money + (excess - to_store) * current_price
             ELSE money
    ELSE IF case = "case2" THEN money
    ELSE IF case = "case3"
    THEN LET needed       == nominal - generated
             storage_used == Min(soc, needed)
             actual       == discharge_actual(soc, storage_used, delta_t)
         IN  money - GridUsed(needed - actual) * current_price
    ELSE money

\* money after the fired case
CaseMoney(case, money, soc, nominal, generated, current_price) ==
    IF case = "case1"
    THEN LET excess   == generated - nominal
             room     == get_remaining_capacity(soc)
             to_store == ToStore(excess, room)
         IN  IF excess > room THEN money + (excess - to_store) * current_price
             ELSE money
    ELSE IF case = "case2" THEN money
    ELSE IF case = "case3"
    THEN LET needed       == nominal - generated
             storage_used == Min(soc, needed)
             actual       == discharge_actual(soc, storage_used, delta_t)
         IN  money - GridUsed(needed - actual) * current_price
    ELSE money - grid_capacity * current_price

\* faulty variant: Case 4 leaves the storage alone
CaseSoc_case4_keep(case, soc, nominal, generated) ==
    IF case = "case1"
    THEN charge(soc, ToStore(generated - nominal, get_remaining_capacity(soc)), delta_t)
    ELSE IF case = "case2" THEN discharge(soc, nominal - generated, delta_t)
    ELSE IF case = "case3" THEN discharge(soc, Min(soc, nominal - generated), delta_t)
    ELSE soc

\* soc after the fired case
CaseSoc(case, soc, nominal, generated) ==
    IF case = "case1"
    THEN charge(soc, ToStore(generated - nominal, get_remaining_capacity(soc)), delta_t)
    ELSE IF case = "case2" THEN discharge(soc, nominal - generated, delta_t)
    ELSE discharge(soc, Min(soc, nominal - generated), delta_t)

\* faulty variant: Case 4 returns the demand as the other cases do
CaseSetPoint_demand(case, power_set_point, nominal) == nominal

\* setpoint after the fired case (Case 4 leaves it as passed in)
CaseSetPoint(case, power_set_point, nominal) ==
    IF case = "case4" THEN power_set_point ELSE nominal

\* battery_capacity[i][time_step + 1] after the charging stage and the
\* update of the non-charging cars
NextCharge(case, st, current, i, nominal, available) ==
    IF st = 1
    THEN IF case = "case4"
         THEN ChargeCurtailed(current, Allocated(charging_ports[i], nominal, available),
                              ev_caps(i))
         ELSE ChargeFull(current, charging_ports[i], ev_caps(i))
    ELSE NonChargingValue(st, current)

\* the number of assignments the call makes to battery_capacity[i][k]
\* (st = status[i][time_step]): none before an early return; in the
\* charging stage one at time_step + 1 by the loop of the case that ran for a
\* car that can charge, one by the update loop for a car that is away or full
WriteCount(taken, st, time_step, k) ==
    IF taken \in {"case1", "case2", "case3", "case4"} /\ k = time_step + 1
    THEN (IF st = 1 THEN 1 ELSE 0) + (IF st \in {0, 5} THEN 1 ELSE 0)
    ELSE 0

\* the return paths of the call, by the branch taken
ReturnPaths ==
    {"abort_low", "abort_high", "sell", "sell_full", "store", "idle",
     "case1", "case2", "case3", "case4"}

\* what a return path hands back as setpoint when the power_set_point it was
\* given is a "scalar" or a "list": the voltage stage does += or -= on it (a
\* list and a number: TypeError) and returns before the list check; the
\* no-EV stage returns the literal 0; Case 1, 2, 3 assign total_nominal;
\* Case 4 keeps what it was given, and only this last return passes the list
\* check (first element) and float()
ReturnedShape(path, given) ==
    IF path \in {"abort_low", "abort_high"}
    THEN (IF given = "list" THEN "TypeError" ELSE "scalar")
    ELSE IF path \in {"sell", "sell_full", "store", "idle"} THEN "scalar"
    ELSE IF path \in {"case1", "case2", "case3"} THEN "scalar"
    ELSE "scalar"

\* the whole call.  raised = TRUE: an IndexError left the function (the write
\* at time_step + 1 is outside the array); soc is then the storage as the
\* call left it (Case 2 and 3 discharge before the first write).
controller_multiple_cars(status, soc, money, time_step, battery_capacity, solar, wind, current_price, voltage, power_set_point) ==
    IF OutOfBand(voltage)
    THEN [money |-> money, soc |-> soc,
          power_set_point |-> VoltageAdjust(voltage, power_set_point),
          battery_capacity |-> battery_capacity,
          branch |-> IF voltage < voltage_min THEN "abort_low" ELSE "abort_high",
          raised |-> FALSE]
    ELSE IF charging_indices(status) = {}
    THEN LET r == NoEvStage(money, soc, solar + wind, current_price)
         IN  [money |-> r.money, soc |-> r.soc, power_set_point |-> 0,
              battery_capacity |-> battery_capacity, branch |-> r.branch,
              raised |-> FALSE]
    ELSE LET nominal   == total_nominal(status)
             generated == solar + wind
             available == total_power_available(generated, soc)
             fired     == FiredCases(nominal, generated, soc)
             case      == IF fired = {} THEN "none" ELSE CHOOSE c \in fired : TRUE
         IN  IF case = "none"
             THEN \* no branch of the chain ran: only the non-charging update
                  IF time_step + 1 >= time_steps
                  THEN [money |-> money, soc |-> soc, power_set_point |-> power_set_point,
                        battery_capacity |-> battery_capacity, branch |-> "none",
                        raised |-> TRUE]
                  ELSE [money |-> money, soc |-> soc, power_set_point |-> power_set_point,
                        battery_capacity |->
                            [i \in Cars |-> IF status[i] = 1 THEN battery_capacity[i]
                                            ELSE [battery_capacity[i] EXCEPT ![time_step + 1] =
                                                     NonChargingValue(status[i], battery_capacity[i][time_step])]],
                        branch |-> "none", raised |-> FALSE]
             ELSE IF time_step + 1 >= time_steps
             THEN [money |-> money,
                   soc |-> IF case \in {"case2", "case3"}
                           THEN CaseSoc(case, soc, nominal, generated) ELSE soc,
                   power_set_point |-> power_set_point,
                   battery_capacity |-> battery_capacity,
                   branch |-> case, raised |-> TRUE]
             ELSE [money |-> CaseMoney(case, money, soc, nominal, generated, current_price),
                   soc |-> CaseSoc(case, soc, nominal, generated),
                   power_set_point |-> CaseSetPoint(case, power_set_point, nominal),
                   battery_capacity |->
                       [i \in Cars |-> [battery_capacity[i] EXCEPT ![time_step + 1] =
                           NextCharge(case, status[i], battery_capacity[i][time_step],
                                      i, nominal, available)]],
                   branch |-> case, raised |-> FALSE]

(* ------------------------------------------------------------------ *)
(* cosim_framework.py: Manager.run_simulation                          *)
(* ------------------------------------------------------------------ *)
\* Python list indexing a[k], k from 0
At(a, k) == a[k + 1]
Last(a) == a[Len(a)]

\* One step's conditions: the smart consumer's voltage from the grid model,
\* solar and wind production, the market price.  Production and price are not
\* read when the voltage is out of band, so one value of each goes with it.
Conditions ==
    {[voltage |-> v, solar |-> p[1], wind |-> p[2], price |-> c] :
        v \in {x \in Voltages : ~OutOfBand(x)}, p \in Productions, c \in Prices}
    \cup
    {[voltage |-> v, solar |-> 0, wind |-> 40, price |-> 2] :
        v \in {x \in Voltages : OutOfBand(x)}}

NoCond == [voltage |-> 100, solar |-> 0, wind |-> 0, price |-> 0]

Init ==
    /\ ev_config \in Fleets
    /\ pc = "run"
    /\ time_index = 0
    /\ money_array = <<initial_money>>
    /\ power_setpoint_array = <<0>>
    /\ storage_array = <<>>
    /\ battery_soc = initial_soc
    /\ battery_capacity_arrays = [i \in Cars |-> ZeroArray]
    /\ status_cars = [i \in Cars |-> ZeroArray]
    /\ cond = NoCond
    /\ grid_setpoint = 0
    /\ branch = "init"

\* status_cars[i][time_index] = ev_state_time[i]
StatusWritten(st) ==
    [i \in Cars |-> [status_cars[i] EXCEPT ![time_index] = st[i]]]

\* faulty variant: every call is handed the initial budget
ControllerCall_stale(c) ==
    controller_multiple_cars(ev_state(time_index, battery_capacity_arrays), battery_soc,
                             At(money_array, 0), time_index,
                             battery_capacity_arrays, c.solar, c.wind, c.price,
                             c.voltage, At(power_setpoint_array, time_index))

\* the controller call of the iteration under conditions c
ControllerCall(c) ==
    controller_multiple_cars(ev_state(time_index, battery_capacity_arrays), battery_soc,
                             At(money_array, time_index), time_index,
                             battery_capacity_arrays, c.solar, c.wind, c.price,
                             c.voltage, At(power_setpoint_array, time_index))

\* faulty variant: the grid model is handed the setpoint of the same step
SimStep_no_lag ==
    /\ pc = "run"
    /\ time_index < NumSteps
    /\ time_index < time_steps
    /\ \E c \in Conditions :
        LET r == ControllerCall(c)
        IN  /\ ~r.raised
            /\ cond' = c
            /\ grid_setpoint' = r.power_set_point
            /\ status_cars' = StatusWritten(ev_state(time_index, battery_capacity_arrays))
            /\ battery_capacity_arrays' = r.battery_capacity
            /\ battery_soc' = r.soc
            /\ branch' = r.branch
            /\ power_setpoint_array' = Append(power_setpoint_array, r.power_set_point)
            /\ storage_array' = Append(storage_array, r.soc)
            /\ money_array' = Append(money_array, r.money)
            /\ time_index' = time_index + 1
            /\ pc' = "run"
            /\ UNCHANGED ev_config

\* one iteration of the loop that runs to its end
SimStep ==
    /\ pc = "run"
    /\ time_index < NumSteps
    /\ time_index < time_steps
    /\ \E c \in Conditions :
        LET r == ControllerCall(c)
        IN  /\ ~r.raised
            /\ cond' = c
            /\ grid_setpoint' = At(power_setpoint_array, time_index)
            /\ status_cars' = StatusWritten(ev_state(time_index, battery_capacity_arrays))
            /\ battery_capacity_arrays' = r.battery_capacity
            /\ battery_soc' = r.soc
            /\ branch' = r.branch
            /\ power_setpoint_array' = Append(power_setpoint_array, r.power_set_point)
            /\ storage_array' = Append(storage_array, r.soc)
            /\ money_array' = Append(money_array, r.money)
            /\ time_index' = time_index + 1
            /\ pc' = "run"
            /\ UNCHANGED ev_config

\* if isinstance(power_set_point, list): raise ValueError, else append
AppendOrRaise(shape) == IF shape = "list" THEN "ValueError" ELSE "append"

\* one iteration that an IndexError ends: the index is past the arrays of
\* ev_request.py (availability, status), or the controller's write at
\* time_index + 1 is
SimStepRaises ==
    /\ pc = "run"
    /\ time_index < NumSteps
    /\ \E c \in Conditions :
        IF time_index >= time_steps
        THEN /\ pc' = "error"
             /\ cond' = c
             /\ grid_setpoint' = At(power_setpoint_array, time_index)
             /\ branch' = "index"
             /\ UNCHANGED <<ev_config, time_index, money_array, power_setpoint_array, storage_array,
                            battery_soc, battery_capacity_arrays, status_cars>>
        ELSE LET r == ControllerCall(c)
             IN  /\ r.raised
                 /\ pc' = "error"
                 /\ cond' = c
                 /\ grid_setpoint' = At(power_setpoint_array, time_index)
                 /\ status_cars' = StatusWritten(ev_state(time_index, battery_capacity_arrays))
                 /\ battery_soc' = r.soc
                 /\ branch' = r.branch
                 /\ UNCHANGED <<ev_config, time_index, money_array, power_setpoint_array,
                                storage_array, battery_capacity_arrays>>

\* range(time_steps) is exhausted: plot_results, the run returns
Finish ==
    /\ pc = "run"
    /\ time_index = NumSteps
    /\ pc' = "done"
    /\ UNCHANGED <<ev_config, time_index, money_array, power_setpoint_array, storage_array, battery_soc,
                   battery_capacity_arrays, status_cars, cond, grid_setpoint, branch>>

Next == SimStep \/ SimStepRaises \/ Finish

Spec == Init /\ [][Next]_vars

\* configurations/ev_config.yaml at the edge of what it may hold, which
\* ev_generate_from_config accepts as it accepts any other: a charging port
\* of power 0; a negative battery capacity
EdgeFleets ==
    { [battery_capacity |-> <<81, 40>>, charging_port |-> <<0, 40>>,
       arrival_time |-> <<0, 1>>, departure_time |-> <<0, 0>>],
      [battery_capacity |-> <<-40, 40>>, charging_port |-> <<100, 40>>,
       arrival_time |-> <<0, 1>>, departure_time |-> <<0, 0>>] }

\* the state after construction for such a configuration
InitEdge ==
    /\ ev_config \in EdgeFleets
    /\ pc = "run"
    /\ time_index = 0
    /\ money_array = <<initial_money>>
    /\ power_setpoint_array = <<0>>
    /\ storage_array = <<>>
    /\ battery_soc = initial_soc
    /\ battery_capacity_arrays = [i \in Cars |-> ZeroArray]
    /\ status_cars = [i \in Cars |-> ZeroArray]
    /\ cond = NoCond
    /\ grid_setpoint = 0
    /\ branch = "init"

SpecEdge == InitEdge /\ [][Next]_vars

TypeOK ==
    /\ pc \in {"run", "done", "error"}
    /\ time_index \in 0..NumSteps
    /\ Len(money_array) = time_index + 1
    /\ Len(power_setpoint_array) = time_index + 1
    /\ Len(storage_array) = time_index

(* ------------------------------------------------------------------ *)
(* The latest iteration that ran to its end, read back from the series *)
(* ------------------------------------------------------------------ *)
Completed == pc # "error" /\ time_index > 0
\* the index that iteration processed
T == time_index - 1
PrevSoc == IF T = 0 THEN initial_soc ELSE storage_array[T]
NewSoc == storage_array[T + 1]
PrevMoney == At(money_array, T)
NewMoney == At(money_array, T + 1)
PrevSetpoint == At(power_setpoint_array, T)
NewSetpoint == At(power_setpoint_array, T + 1)
StatusAt(i) == status_cars[i][T]
Charging == {i \in Cars : StatusAt(i) = 1}
Demand == SumPorts(Charging)
Production == cond.solar + cond.wind
InBand == voltage_min <= cond.voltage /\ cond.voltage <= voltage_max
\* the charge of car i before and after the iteration
ChargeBefore(i) == battery_capacity_arrays[i][T]
ChargeAfter(i) == battery_capacity_arrays[i][T + 1]
HasNext == T + 1 < time_steps

(* ------------------------------------------------------------------ *)
(* C1                                                                  *)
(* ------------------------------------------------------------------ *)
\* C1: in every reachable state, after any mix of abort, no-vehicle and
\* Case 1-4 steps, the storage state of charge lies in [0, capacity]; so
\* does every entry of the recorded SoC series.
C1_SocWithinCapacity ==
    /\ 0 <= battery_soc /\ battery_soc <= storage_capacity
    /\ \A k \in 1..Len(storage_array) :
          0 <= storage_array[k] /\ storage_array[k] <= storage_capacity

\* a Case 3 discharge whose request takes more out of the store than it
\* holds (the request is the whole SoC, the efficiency makes it cost more):
\* the store was non-empty and ends empty
C1_Witness ==
    /\ Completed /\ branch = "case3"
    /\ PrevSoc > 0
    /\ discharge_energy(Min(PrevSoc, Demand - Production), delta_t) > PrevSoc
    /\ battery_soc = 0

(* ------------------------------------------------------------------ *)
(* C2                                                                  *)
(* ------------------------------------------------------------------ *)
\* C2: every entry of every car's charge trace lies in [0, battery
\* capacity of the car], whichever branch wrote it or left it unwritten.
C2_ChargeWithinCapacity ==
    \A i \in Cars : \A k \in 0..(time_steps - 1) :
        /\ 0 <= battery_capacity_arrays[i][k]
        /\ battery_capacity_arrays[i][k] <= battery_caps[i]

\* a car whose port power exceeds its capacity has been charged and the
\* clamp has cut the written value
C2_Witness ==
    /\ Completed /\ HasNext
    /\ \E i \in Charging :
          /\ ChargeBefore(i) + charging_ports[i] > battery_caps[i]
          /\ ChargeAfter(i) > 0
          /\ ChargeAfter(i) <= battery_caps[i]

(* ------------------------------------------------------------------ *)
(* C3                                                                  *)
(* ------------------------------------------------------------------ *)
\* C3: a step whose measured voltage is outside [voltage_min, voltage_max]
\* leaves budget, storage SoC and every charge-trace entry as they were and
\* returns the previous setpoint plus the voltage step (voltage low) or
\* minus the voltage step (voltage high).
C3_AbortFrame ==
    [][ (time_index' = time_index + 1 /\ OutOfBand(cond'.voltage)) =>
          /\ Last(money_array') = Last(money_array)
          /\ battery_soc' = battery_soc
          /\ Last(storage_array') = battery_soc
          /\ battery_capacity_arrays' = battery_capacity_arrays
          /\ (cond'.voltage < voltage_min =>
                Last(power_setpoint_array') =
                    Last(power_setpoint_array) + p_adjust_step_size_voltage)
          /\ (cond'.voltage > voltage_max =>
                Last(power_setpoint_array') =
                    Last(power_setpoint_array) - p_adjust_step_size_voltage)
      ]_vars

\* an aborted step taken with a car that could charge, a non-empty store and
\* a non-zero previous setpoint
C3_Witness ==
    /\ Completed /\ ~InBand
    /\ Charging # {}
    /\ PrevSoc > 0
    /\ PrevSetpoint # 0
    /\ \E i \in Cars : ChargeBefore(i) > 0

(* ------------------------------------------------------------------ *)
(* C4                                                                  *)
(* ------------------------------------------------------------------ *)
\* C4: in an in-band step with at least one car that can charge, exactly one
\* case runs, and it is the first in the order 1, 2, 3, 4 whose condition
\* holds of demand, production, the SoC at the start of the step and the
\* grid capacity.
C4_ExactlyOneCase ==
    (Completed /\ InBand /\ Charging # {}) =>
        /\ branch \in {"case1", "case2", "case3", "case4"}
        /\ (branch = "case1") <=> (Demand <= Production)
        /\ (branch = "case2") <=>
              (Demand > Production /\ Demand <= Production + PrevSoc)
        /\ (branch = "case3") <=>
              (/\ Demand > Production + PrevSoc
               /\ Demand <= Production + PrevSoc + grid_capacity)
        /\ (branch = "case4") <=> (Demand > Production + PrevSoc + grid_capacity)

\* Case 3 ran with a non-empty store: the conditions of Case 1 and 2 failed
C4_Witness ==
    /\ Completed /\ InBand /\ branch = "case3"
    /\ PrevSoc > 0
    /\ Demand > Production + PrevSoc

(* ------------------------------------------------------------------ *)
(* C5                                                                  *)
(* ------------------------------------------------------------------ *)
\* the status the claim derives from the presence code at t, the capacity
\* and the charge at index t, with tolerance eps
ClaimedStatus(presence, cap, level, eps) ==
    IF presence = 2 THEN 0
    ELSE IF level < cap - eps THEN 1
    ELSE 5

\* C5: the status written for step t is the one derived from the presence
\* code at t, the capacity and the charge level at index t (away: 0;
\* present and charge[t] < capacity - eps: 1; present and
\* charge[t] >= capacity - eps: 5), for a small tolerance eps (none, or one
\* half unit).
C5_StatusFromChargeAtT ==
    \E eps \in 0..1 :
        \A i \in Cars : \A k \in 0..(time_index - 1) :
            status_cars[i][k] =
                ClaimedStatus(availability_arrays(i, k), battery_caps[i],
                              battery_capacity_arrays[i][k], eps)

(* ------------------------------------------------------------------ *)
(* C6                                                                  *)
(* ------------------------------------------------------------------ *)
\* C6: in every step that passes the voltage stage, whichever stage then
\* handles it (the no-vehicle stage included), a car whose status at t is
\* full (5) has its next-step charge held: charge[t+1] = charge[t].
C6_FullChargeHeld ==
    (Completed /\ InBand /\ HasNext) =>
        \A i \in Cars : StatusAt(i) = 5 => ChargeAfter(i) = ChargeBefore(i)

(* ------------------------------------------------------------------ *)
(* C7                                                                  *)
(* ------------------------------------------------------------------ *)
\* C7: for every step t that has returned, whichever stage handled it, a car
\* whose status at t is away (0) has charge[t+1] = 0.
C7_AwayChargeZero ==
    \A i \in Cars : \A k \in 0..(time_index - 1) :
        (status_cars[i][k] = 0 /\ k + 1 < time_steps) =>
            battery_capacity_arrays[i][k + 1] = 0

\* a car that holds charge is away in a step the voltage stage aborts (an
\* early return: nothing is written), and its next entry is 0
C7_Witness ==
    /\ Completed /\ HasNext /\ ~InBand
    /\ \E i \in Cars :
          /\ StatusAt(i) = 0
          /\ ChargeBefore(i) > 0
          /\ ChargeAfter(i) = 0

(* ------------------------------------------------------------------ *)
(* C8                                                                  *)
(* ------------------------------------------------------------------ *)
\* the step's case, by the conditions of the claims
IsCaseA == Completed /\ InBand /\ Charging # {} /\ Demand <= Production
IsCaseB == /\ Completed /\ InBand /\ Charging # {}
           /\ Production < Demand /\ Demand <= Production + PrevSoc
IsCaseC == /\ Completed /\ InBand /\ Charging # {}
           /\ Demand > Production + PrevSoc
           /\ Demand <= Production + PrevSoc + grid_capacity

\* Case A without the cars: setpoint = demand, the excess is stored up to
\* the remaining capacity, the budget grows by (excess - stored) x price
\* exactly when the excess exceeds the remaining capacity
CaseA_StorageBudgetSetpoint ==
    LET excess == Production - Demand
        room   == storage_capacity - PrevSoc
        stored == Min(excess, room)
    IN  /\ NewSetpoint = Demand
        /\ NewSoc = charge(PrevSoc, stored, delta_t)
        /\ NewMoney = IF excess > room
                      THEN PrevMoney + (excess - stored) * cond.price
                      ELSE PrevMoney

\* C8: in Case A (demand <= production) every car that can charge gets
\* next charge = min(current charge + port power, its capacity), the
\* setpoint returned is the demand, the excess production - demand is stored
\* up to the remaining capacity, and the budget grows by
\* (excess - stored) x price exactly when the excess exceeds the remaining
\* capacity.
C8_CaseA ==
    (IsCaseA /\ HasNext) =>
        /\ \A i \in Charging :
              ChargeAfter(i) = Min(ChargeBefore(i) + charging_ports[i], battery_caps[i])
        /\ CaseA_StorageBudgetSetpoint

\* what the code does in Case A: the same, with the capacity cut to a whole
\* number by the controller
C8_CaseA_AsCoded ==
    (IsCaseA /\ HasNext) =>
        /\ \A i \in Charging :
              ChargeAfter(i) = Min(ChargeBefore(i) + charging_ports[i], ev_caps(i))
        /\ CaseA_StorageBudgetSetpoint

(* ------------------------------------------------------------------ *)
(* C9                                                                  *)
(* ------------------------------------------------------------------ *)
\* Case B without the cars: budget unchanged, the storage is discharged by a
\* request of demand - production, setpoint = demand
CaseB_StorageBudgetSetpoint ==
    /\ NewMoney = PrevMoney
    /\ NewSoc = discharge(PrevSoc, Demand - Production, delta_t)
    /\ NewSetpoint = Demand

\* C9: in Case B (production < demand <= production + soc) the budget
\* returned is the budget passed in, the storage is discharged by a request
\* of demand - production, every car that can charge gets next charge =
\* min(current + port, capacity), and the setpoint returned is the demand.
C9_CaseB ==
    (IsCaseB /\ HasNext) =>
        /\ CaseB_StorageBudgetSetpoint
        /\ \A i \in Charging :
              ChargeAfter(i) = Min(ChargeBefore(i) + charging_ports[i], battery_caps[i])

\* what the code does in Case B
C9_CaseB_AsCoded ==
    (IsCaseB /\ HasNext) =>
        /\ CaseB_StorageBudgetSetpoint
        /\ \A i \in Charging :
              ChargeAfter(i) = Min(ChargeBefore(i) + charging_ports[i], ev_caps(i))

(* ------------------------------------------------------------------ *)
(* C10                                                                 *)
(* ------------------------------------------------------------------ *)
\* C10: in Case C the storage is discharged by a request of at most its SoC
\* toward the deficit demand - production, the grid supplies grid_used = the
\* deficit less what the storage actually delivered, 0 <= grid_used <=
\* grid_capacity, the budget falls by exactly grid_used x price, and every
\* car that can charge gets next charge = min(current + port, capacity).
C10_CaseC ==
    (IsCaseC /\ HasNext) =>
        LET deficit   == Demand - Production
            request   == Min(PrevSoc, deficit)
            delivered == discharge_actual(PrevSoc, request, delta_t)
            grid_used == deficit - delivered
        IN  /\ NewSoc = discharge(PrevSoc, request, delta_t)
            /\ 0 <= grid_used /\ grid_used <= grid_capacity
            /\ NewMoney = PrevMoney - grid_used * cond.price
            /\ \A i \in Charging :
                  ChargeAfter(i) =
                      Min(ChargeBefore(i) + charging_ports[i], battery_caps[i])

\* what the code does in Case C: the grid supplies the remaining deficit only
\* up to grid_capacity, and the capacity is cut to a whole number
C10_CaseC_AsCoded ==
    (IsCaseC /\ HasNext) =>
        LET deficit   == Demand - Production
            request   == Min(PrevSoc, deficit)
            delivered == discharge_actual(PrevSoc, request, delta_t)
            grid_used == Min(grid_capacity, deficit - delivered)
        IN  /\ NewSoc = discharge(PrevSoc, request, delta_t)
            /\ 0 <= grid_used /\ grid_used <= grid_capacity
            /\ NewMoney = PrevMoney - grid_used * cond.price
            /\ \A i \in Charging :
                  ChargeAfter(i) = Min(ChargeBefore(i) + charging_ports[i], ev_caps(i))

\* C10, the grid part alone on cars with whole-number capacity untouched:
\* the remaining deficit never exceeds the grid capacity
C10_GridCoversDeficit ==
    (IsCaseC /\ HasNext) =>
        LET deficit   == Demand - Production
            request   == Min(PrevSoc, deficit)
            delivered == discharge_actual(PrevSoc, request, delta_t)
        IN  deficit - delivered <= grid_capacity

(* ------------------------------------------------------------------ *)
(* C11                                                                 *)
(* ------------------------------------------------------------------ *)
IsCaseD == /\ Completed /\ InBand /\ Charging # {}
           /\ Demand > Production + PrevSoc + grid_capacity

\* production + soc + grid_capacity at the start of the step
Headroom == Production + PrevSoc + grid_capacity

\* (port power of car i / demand) x headroom, rounded down to a half unit
AllocatedTo(i) == (charging_ports[i] * Headroom) \div Demand

RECURSIVE SumAllocated(_)
SumAllocated(S) ==
    IF S = {} THEN 0
    ELSE LET i == CHOOSE x \in S : TRUE
         IN  AllocatedTo(i) + SumAllocated(S \ {i})

\* C11: in Case D (demand > production + soc + grid_capacity) every car that
\* can charge is allocated (port power / demand) x headroom, headroom =
\* production + soc + grid_capacity, and gets next charge =
\* min(current charge + allocation, its capacity).
C11_CaseD ==
    (IsCaseD /\ HasNext) =>
        \A i \in Charging :
            ChargeAfter(i) = Min(ChargeBefore(i) + AllocatedTo(i), battery_caps[i])

\* what the code does in Case D: the same with the capacity cut to a whole
\* number; the allocations are proportional to the port powers and add up to
\* the headroom, up to the rounding of each to a half unit
C11_CaseD_AsCoded ==
    (IsCaseD /\ HasNext) =>
        /\ \A i \in Charging :
              /\ ChargeAfter(i) = Min(ChargeBefore(i) + AllocatedTo(i), ev_caps(i))
              /\ AllocatedTo(i) * Demand <= charging_ports[i] * Headroom
              /\ charging_ports[i] * Headroom < (AllocatedTo(i) + 1) * Demand
        /\ SumAllocated(Charging) <= Headroom
        /\ Headroom - SumAllocated(Charging) < Cardinality(Charging)

\* the worked example: ports 100 W and 300 W, headroom 200 W give 50 W and
\* 150 W (half units)
C11_Example ==
    /\ Allocated(200, 800, 400) = 100
    /\ Allocated(600, 800, 400) = 300

(* ------------------------------------------------------------------ *)
(* C12                                                                 *)
(* ------------------------------------------------------------------ *)
\* C12: in Case D the storage is discharged by a request of
\* min(soc, demand - production) and the budget falls by exactly
\* grid_capacity x price, whatever the cars could take up.
C12_CaseD_StorageBudget ==
    (IsCaseD /\ HasNext) =>
        /\ NewSoc = discharge(PrevSoc, Min(PrevSoc, Demand - Production), delta_t)
        /\ NewMoney = PrevMoney - grid_capacity * cond.price

\* a Case D step with a non-empty store in which the capacity of a car cut
\* its allocation, and the whole grid capacity was still paid for
C12_Witness ==
    /\ IsCaseD /\ HasNext
    /\ PrevSoc > 0
    /\ cond.price > 0
    /\ \E i \in Charging : ChargeBefore(i) + AllocatedTo(i) > ev_caps(i)
    /\ NewMoney = PrevMoney - grid_capacity * cond.price
    /\ NewSoc < PrevSoc

(* ------------------------------------------------------------------ *)
(* C13                                                                 *)
(* ------------------------------------------------------------------ *)
\* an in-band step in which no car can charge
IsNoVehicle == Completed /\ InBand /\ Charging = {}

\* C13: in an in-band step in which no car can charge and price < price_low,
\* min(production, remaining capacity) is stored, so the SoC rises by that
\* amount x delta_t x charge efficiency; the budget grows by
\* (production - stored) x price when production exceeds what was stored
\* and is unchanged otherwise; the setpoint returned is 0.
C13_LowPriceStore ==
    (IsNoVehicle /\ cond.price < price_low) =>
        LET room   == storage_capacity - PrevSoc
            stored == Min(Production, room)
        IN  /\ NewSoc = PrevSoc + (stored * delta_t * EffNum) \div EffDen
            /\ NewMoney = IF Production > stored
                          THEN PrevMoney + (Production - stored) * cond.price
                          ELSE PrevMoney
            /\ NewSetpoint = 0

\* a low-price step without a charging car in which the production did not
\* fit: part was stored, the overflow was sold
C13_Witness ==
    /\ IsNoVehicle /\ cond.price < price_low
    /\ PrevSoc > 0
    /\ Production > storage_capacity - PrevSoc
    /\ NewSoc > PrevSoc
    /\ NewMoney > PrevMoney
    /\ PrevSetpoint # 0

(* ------------------------------------------------------------------ *)
(* C14                                                                 *)
(* ------------------------------------------------------------------ *)
\* C14: in an in-band step in which no car can charge, a price above
\* price_high adds production x price to the budget and leaves the SoC as it
\* was; a price in [price_low, price_high] changes neither; the setpoint
\* returned is 0 in both.
C14_SellOrIdle ==
    IsNoVehicle =>
        /\ (cond.price > price_high =>
              /\ NewMoney = PrevMoney + Production * cond.price
              /\ NewSoc = PrevSoc
              /\ NewSetpoint = 0)
        /\ ((price_low <= cond.price /\ cond.price <= price_high) =>
              /\ NewMoney = PrevMoney
              /\ NewSoc = PrevSoc
              /\ NewSetpoint = 0)

\* a high-price step without a charging car, with production to sell, a
\* store that is neither empty nor full and a non-zero previous setpoint
C14_Witness ==
    /\ IsNoVehicle /\ cond.price > price_high
    /\ Production > 0
    /\ PrevSoc > 0 /\ PrevSoc < storage_capacity
    /\ PrevSetpoint # 0
    /\ NewMoney = PrevMoney + Production * cond.price

(* ------------------------------------------------------------------ *)
(* C15                                                                 *)
(* ------------------------------------------------------------------ *)
RECURSIVE SumGain(_)
\* what the cars of S gained in the step
SumGain(S) ==
    IF S = {} THEN 0
    ELSE LET i == CHOOSE x \in S : TRUE
         IN  (ChargeAfter(i) - ChargeBefore(i)) + SumGain(S \ {i})

\* energy delivered to the cars in the step
ToCars == IF InBand /\ Charging # {} THEN SumGain(Charging) ELSE 0

\* energy bought from the grid less energy sold, read from the budget
NetBought == (PrevMoney - NewMoney) \div cond.price

\* production + bought - sold - delivered to the cars: what is left for the
\* storage to take up (positive) or to supply (negative)
Leftover == Production + NetBought - ToCars

\* the SoC moved as the storage does when it takes up x (x >= 0) or
\* delivers -x (x < 0)
SocMovedBy(x) ==
    IF x >= 0 THEN NewSoc = PrevSoc + charge_energy(x, delta_t)
    ELSE NewSoc = PrevSoc - discharge_energy(-x, delta_t)

\* the tolerance of the balance: each curtailed allocation is rounded down
\* to a half unit
BalanceTolerance == IF IsCaseD THEN Cardinality(Charging) - 1 ELSE 0

\* delivered + stored + sold - bought = production, within the tolerance
EnergyBalanced == \E e \in 0..BalanceTolerance : SocMovedBy(Leftover - e)

\* what a charging car is offered in the step
CarGain(i) == IF IsCaseD THEN AllocatedTo(i) ELSE charging_ports[i]

\* the discharge the controller requests when production does not cover
\* the demand
StorageRequest ==
    IF Demand <= Production + PrevSoc THEN Demand - Production
    ELSE Min(PrevSoc, Demand - Production)

\* the step hit no clamp: no car was cut at its capacity, what was sent to
\* the store fitted, what was asked of the store was there
NoClamp ==
    InBand =>
        /\ \A i \in Charging : ChargeBefore(i) + CarGain(i) <= ev_caps(i)
        /\ (Charging = {} /\ cond.price < price_low) =>
               Production <= storage_capacity - PrevSoc
        /\ (Charging # {} /\ Demand <= Production) =>
               Production - Demand <= storage_capacity - PrevSoc
        /\ (Charging # {} /\ Demand > Production) =>
               discharge_energy(StorageRequest, delta_t) <= PrevSoc

\* the step left the production unused: the voltage stage ended it, or no
\* car could charge and the price was neither high nor low
ProductionUnused ==
    \/ ~InBand
    \/ (Charging = {} /\ price_low <= cond.price /\ cond.price <= price_high)

\* C15 as stated: in every step that hits no clamp, energy delivered to the
\* cars + energy stored + energy sold - energy bought = production.
C15_EnergyBalance ==
    (Completed /\ NoClamp) => EnergyBalanced

\* C15: the balance holds in every step that hits no clamp and dispatches
\* the production, that is every in-band step other than a no-vehicle step
\* with price_low <= price <= price_high; energy stored is counted at the
\* terminals of the storage, before the charge loss and after the discharge
\* loss.
C15_EnergyBalance_Dispatched ==
    (Completed /\ NoClamp /\ ~ProductionUnused) => EnergyBalanced

\* a step without a clamp in which the cars were charged from the grid and
\* the production together
C15_Witness ==
    /\ Completed /\ NoClamp /\ ~ProductionUnused
    /\ Production > 0
    /\ ToCars > Production
    /\ NetBought > 0

\* a step without a clamp in which production was stored
C15_Witness_Stored ==
    /\ Completed /\ NoClamp /\ ~ProductionUnused
    /\ Production > 0
    /\ NewSoc > PrevSoc

(* ------------------------------------------------------------------ *)
(* C16                                                                 *)
(* ------------------------------------------------------------------ *)
\* what the storage actually delivered in the step: the value discharge
\* returned
StorageDelivered ==
    IF InBand /\ Charging # {} /\ Demand > Production
    THEN discharge_actual(PrevSoc, StorageRequest, delta_t)
    ELSE 0

\* C16: in every in-band step (no-vehicle stage, Case A, B, C, D) the
\* energy credited to the cars plus the energy sold is at most the
\* production plus what the storage actually delivered plus what the grid
\* supplied (sold and bought are read from the budget).
C16_ActualAmountsUsed ==
    (Completed /\ InBand) =>
        ToCars <= Production + StorageDelivered + NetBought

\* the same for the stages that do not discharge the storage: the
\* no-vehicle stage and Case A
C16_NoDischargeStages ==
    (Completed /\ InBand /\ (Charging = {} \/ Demand <= Production)) =>
        ToCars <= Production + NetBought

(* ------------------------------------------------------------------ *)
(* C17                                                                 *)
(* ------------------------------------------------------------------ *)
\* C17: the setpoint series starts with 0, and every step hands the grid
\* model the latest entry of the series as it stands when the step begins:
\* 0 in step 0, afterwards the setpoint the controller returned in the step
\* before, never the one the step itself computes and appends.
C17_GridGetsPreviousSetpoint ==
    /\ [](At(power_setpoint_array, 0) = 0)
    /\ [][ (pc = "run" /\ time_index < NumSteps) =>
             /\ grid_setpoint' = Last(power_setpoint_array)
             /\ (time_index = 0 => grid_setpoint' = 0)
             /\ (time_index' = time_index + 1 =>
                    /\ Len(power_setpoint_array') = Len(power_setpoint_array) + 1
                    /\ \A k \in 1..Len(power_setpoint_array) :
                          power_setpoint_array'[k] = power_setpoint_array[k])
         ]_vars

\* a step after the first in which the grid model got the non-zero setpoint
\* of the step before while the controller returned a different one
C17_Witness ==
    /\ Completed /\ T > 0
    /\ PrevSetpoint # 0
    /\ grid_setpoint = PrevSetpoint
    /\ NewSetpoint # PrevSetpoint

(* ------------------------------------------------------------------ *)
(* C18                                                                 *)
(* ------------------------------------------------------------------ *)
\* C18: every controller call is handed the budget, the storage and the
\* charge traces the call before returned (the initial budget, an empty
\* storage and all-zero traces in step 0), and after k steps that ran to
\* their end the setpoint and budget series hold k + 1 entries and the SoC
\* series k.
C18_StateThreaded ==
    /\ [](/\ Len(power_setpoint_array) = time_index + 1
          /\ Len(money_array) = time_index + 1
          /\ Len(storage_array) = time_index
          /\ (time_index = 0 /\ pc = "run") =>
                 /\ Last(money_array) = initial_money
                 /\ battery_soc = 0
                 /\ \A i \in Cars : \A k \in 0..(time_steps - 1) :
                        battery_capacity_arrays[i][k] = 0
          /\ (time_index > 0 /\ pc # "error") => battery_soc = Last(storage_array))
    /\ [][ time_index' = time_index + 1 =>
             LET r == controller_multiple_cars(
                          ev_state(time_index, battery_capacity_arrays), battery_soc,
                          Last(money_array), time_index, battery_capacity_arrays,
                          cond'.solar, cond'.wind, cond'.price, cond'.voltage,
                          Last(power_setpoint_array))
             IN  /\ Last(money_array') = r.money
                 /\ Last(storage_array') = r.soc
                 /\ battery_soc' = r.soc
                 /\ battery_capacity_arrays' = r.battery_capacity
                 /\ Last(power_setpoint_array') = r.power_set_point
         ]_vars

\* a step after the first that started from a budget other than the initial
\* one, a non-empty storage and a car holding charge, and changed the budget
C18_Witness ==
    /\ Completed /\ T > 0
    /\ PrevMoney # initial_money
    /\ PrevSoc > 0
    /\ \E i \in Cars : ChargeBefore(i) > 0
    /\ NewMoney # PrevMoney
    /\ Len(money_array) = time_index + 1
    /\ Len(storage_array) = time_index

(* ------------------------------------------------------------------ *)
(* C19                                                                 *)
(* ------------------------------------------------------------------ *)
\* C19, the length: every charge trace has an entry for each index
\* 0 .. horizon, the first of them 0.
C19_TraceLength ==
    \A i \in Cars :
        /\ DOMAIN battery_capacity_arrays[i] = 0..NumSteps
        /\ battery_capacity_arrays[i][0] = 0

\* C19: in every step t of the horizon, 0 <= t < number of steps, the write
\* to the charge trace at t + 1 finds its index, so the run never ends on an
\* out-of-range access.
C19_NoOutOfRange == pc # "error"

(* ------------------------------------------------------------------ *)
(* C20                                                                 *)
(* ------------------------------------------------------------------ *)
\* the assignments the latest call made to the entry k of car i
WritesAt(i, k) == WriteCount(branch, StatusAt(i), T, k)

\* C20: the call that processes index t writes the entry t + 1 of every
\* car's trace exactly once and no other entry.
C20_WrittenExactlyOnce ==
    (Completed /\ HasNext) =>
        \A i \in Cars : \A k \in 0..(time_steps - 1) :
            WritesAt(i, k) = IF k = T + 1 THEN 1 ELSE 0

\* C20, the second half: no call writes an entry other than t + 1, and none
\* writes an entry twice
C20_NoOtherIndexWritten ==
    Completed =>
        \A i \in Cars : \A k \in 0..(time_steps - 1) :
            /\ WritesAt(i, k) <= 1
            /\ (k # T + 1 => WritesAt(i, k) = 0)

\* an entry a call left unwritten still holds the 0 it was created with,
\* whatever the car held at t
C20_SkippedEntryStaysZero ==
    (Completed /\ HasNext /\ branch \notin {"case1", "case2", "case3", "case4"}) =>
        \A i \in Cars : ChargeAfter(i) = 0

(* ------------------------------------------------------------------ *)
(* C21                                                                 *)
(* ------------------------------------------------------------------ *)
\* C21: the loop runs exactly the configured number of steps and then
\* terminates: a run that has left the loop has left it normally, after
\* NumSteps steps each of which appended to the series.
C21_RunsAllSteps ==
    pc # "run" =>
        /\ pc = "done"
        /\ time_index = NumSteps
        /\ Len(storage_array) = NumSteps

\* what the code does: the loop is left normally only after NumSteps steps,
\* and the only thing that ends it earlier is the out-of-range write of the
\* step whose index is the last of the trace; neither the voltage, nor the
\* SoC, nor the budget, nor the statuses of the cars do
C21_OnlyIndexErrorEndsEarly ==
    /\ (pc = "done" => time_index = NumSteps /\ Len(storage_array) = NumSteps)
    /\ (pc = "error" => time_index + 1 >= time_steps)
    /\ (pc = "run" /\ time_index < NumSteps /\ time_index + 1 < time_steps) => ENABLED SimStep

\* a run that went on after a step with the voltage out of band, with an
\* empty storage and with a negative budget
C21_WentOnAfterAbort ==
    /\ Completed /\ T > 0
    /\ \E k \in 1..Len(money_array) : money_array[k] < 0
    /\ \E k \in 1..Len(storage_array) : storage_array[k] = 0
    /\ ~InBand
    /\ pc = "done"

C22_Witness_CaseD ==
    /\ Completed /\ InBand /\ branch = "case4"
    /\ \E i \in Charging : charging_ports[i] = 0
    /\ Demand > 0

(* ------------------------------------------------------------------ *)
(* C23                                                                 *)
(* ------------------------------------------------------------------ *)
\* C23: the return path a step took hands the orchestrator a single scalar,
\* also when the setpoint the call is given is multi-valued: it is reduced
\* to a scalar, no error ends the run.
C23_ScalarOnEveryPath ==
    Completed =>
        \A given \in {"scalar", "list"} :
            /\ ReturnedShape(branch, given) = "scalar"
            /\ AppendOrRaise(ReturnedShape(branch, given)) = "append"

\* what the code does: in a run the series starts with the scalar 0 and
\* every path hands back a scalar when given one, so every step taken
\* appended a scalar; a list would be reduced on the in-band paths only
C23_ScalarInRun ==
    /\ \A path \in ReturnPaths :
          AppendOrRaise(ReturnedShape(path, "scalar")) = "append"
    /\ \A path \in ReturnPaths \ {"abort_low", "abort_high"} :
          ReturnedShape(path, "list") = "scalar"
    /\ Completed => (branch \in ReturnPaths /\ ReturnedShape(branch, "scalar") = "scalar")

(* ------------------------------------------------------------------ *)
(* C24                                                                 *)
(* ------------------------------------------------------------------ *)
\* the hours of the day the claim calls PRESENT, for arrival a, departure d
ClaimedPresent(a, d, h) ==
    IF a < d THEN a <= h /\ h < d
    ELSE h >= a \/ h < d

ConfigOutOfRange ==
    \/ storage_capacity < 0
    \/ grid_capacity < 0
    \/ \E i \in Cars : battery_caps[i] < 0

\* C25: a run configured with a value out of range is rejected before the
\* first step: no controller step runs and the run does not end normally.
C25_BadConfigRejected ==
    ConfigOutOfRange =>
        /\ time_index = 0
        /\ Len(storage_array) = 0
        /\ branch = "init"
        /\ pc # "done"

\* what the code does: the run with a negative car capacity takes all its
\* steps and ends normally; the car counts as full whenever it is present
C25_BadConfigRunsToEnd ==
    /\ ConfigOutOfRange
    /\ pc = "done"
    /\ time_index = NumSteps
    /\ \E i \in Cars : battery_caps[i] < 0 /\ status_cars[i][0] = 5

(* ------------------------------------------------------------------ *)
(* C26                                                                 *)
(* ------------------------------------------------------------------ *)
\* C26: a car whose status is full (5) at a step and that is still present
\* at the next step is full at the next step too, and its charge has not
\* dropped, whatever the voltage, the price and the other cars were.
C26_FullStaysFull ==
    \A i \in Cars : \A k \in 0..(time_index - 2) :
        (status_cars[i][k] = 5 /\ availability_arrays(i, k + 1) = 3) =>
            /\ status_cars[i][k + 1] = 5
            /\ battery_capacity_arrays[i][k + 1] >= battery_capacity_arrays[i][k]

\* the status half alone
C26_StatusStaysFull ==
    \A i \in Cars : \A k \in 0..(time_index - 2) :
        (status_cars[i][k] = 5 /\ availability_arrays(i, k + 1) = 3) =>
            status_cars[i][k + 1] = 5

\* what the code does keep: a full car whose step reaches the update of the
\* non-charging cars holds its charge
C26_HeldInChargingStage ==
    (Completed /\ HasNext /\ branch \in {"case1", "case2", "case3", "case4"}) =>
        \A i \in Cars : StatusAt(i) = 5 => ChargeAfter(i) = ChargeBefore(i)

(* ------------------------------------------------------------------ *)
(* C27                                                                 *)
(* ------------------------------------------------------------------ *)
\* ceil(a / b) for a >= 0, b > 0
Ceil(a, b) == (a + b - 1) \div b

\* C27, for the cars with ceil(capacity / port power) = 1: a car with port
\* power > 0 that is present and can charge in an in-band step handled by
\* Case A, B or C has a charge equal to its capacity after that one step;
\* and a car whose charge has reached its capacity is reported full at the
\* second step after the one that charged it, if it is present then.
C27_ReachesCapacityThenFull ==
    /\ (Completed /\ InBand /\ HasNext /\ branch \in {"case1", "case2", "case3"}) =>
          \A i \in Charging :
              (charging_ports[i] > 0 /\ Ceil(battery_caps[i], charging_ports[i]) = 1) =>
                  ChargeAfter(i) = battery_caps[i]
    /\ \A i \in Cars : \A k \in 0..(time_index - 3) :
          (/\ battery_capacity_arrays[i][k + 1] = battery_caps[i]
           /\ availability_arrays(i, k + 2) = 3) =>
              status_cars[i][k + 2] = 5

\* what the code does: the car reaches the whole-number part of its
\* capacity in that step, and is reported full two steps after the one that
\* charged it if that is its capacity
C27_ReachesTruncatedCapacity ==
    /\ (Completed /\ InBand /\ HasNext /\ branch \in {"case1", "case2", "case3"}) =>
          \A i \in Charging :
              (charging_ports[i] > 0 /\ Ceil(battery_caps[i], charging_ports[i]) = 1) =>
                  ChargeAfter(i) = ev_caps(i)
    /\ \A i \in Cars : \A k \in 0..(time_index - 3) :
          (/\ battery_capacity_arrays[i][k + 1] >= battery_caps[i]
           /\ availability_arrays(i, k + 2) = 3) =>
              status_cars[i][k + 2] = 5

\* a car charged to the whole-number part of a fractional capacity is still
\* reported as able to charge two steps after the step that charged it
C27_TruncatedCarNotFull ==
    \E i \in Cars : \E k \in 0..(time_index - 3) :
        /\ status_cars[i][k] = 1
        /\ battery_capacity_arrays[i][k + 1] = ev_caps(i)
        /\ ev_caps(i) < battery_caps[i]
        /\ status_cars[i][k + 2] = 1

(* ------------------------------------------------------------------ *)
(* C28                                                                 *)
(* ------------------------------------------------------------------ *)
\* C28: in Case D the setpoint returned is the setpoint the call was given,
\* the one of the step before, unchanged.
C28_CaseDKeepsSetpoint ==
    (IsCaseD /\ HasNext) => NewSetpoint = PrevSetpoint

\* a Case D step given a setpoint that is neither 0, nor the demand, nor
\* what the cars were allocated
C28_Witness ==
    /\ IsCaseD /\ HasNext
    /\ PrevSetpoint # 0
    /\ PrevSetpoint # Demand
    /\ PrevSetpoint # SumAllocated(Charging)
    /\ PrevSetpoint # ToCars
    /\ NewSetpoint = PrevSetpoint

(* ------------------------------------------------------------------ *)
(* C29                                                                 *)
(* ------------------------------------------------------------------ *)
\* C29: after a Case D step (grid_capacity >= 0) the storage is empty: the
\* deficit demand - production exceeds the SoC, so the whole SoC is
\* requested.
C29_CaseDEmptiesStorage ==
    (IsCaseD /\ HasNext) =>
        /\ grid_capacity >= 0
        /\ Demand - Production > PrevSoc
        /\ StorageRequest = PrevSoc
        /\ NewSoc = 0
        /\ battery_soc = 0

\* a Case D step that started with energy in the storage
C29_Witness ==
    /\ IsCaseD /\ HasNext
    /\ PrevSoc > 0
    /\ NewSoc = 0

(* ------------------------------------------------------------------ *)
(* C30                                                                 *)
(* ------------------------------------------------------------------ *)
\* C30: the voltage stage changes the setpoint exactly in the steps it
\* aborts: a step with the voltage below voltage_min (above voltage_max)
\* returns the setpoint it was given plus (minus) the voltage step, whatever
\* that setpoint was, and leaves budget and SoC as they were; an in-band
\* step returns what the later stages make of the setpoint as given (0, the
\* demand, or in Case 4 the given setpoint itself).  So k aborted steps in a
\* row move the series by k voltage steps.
C30_SetpointMovesOnlyOnAbort ==
    [][ time_index' = time_index + 1 =>
          LET given    == Last(power_setpoint_array)
              returned == Last(power_setpoint_array')
              v        == cond'.voltage
          IN  /\ v < voltage_min =>
                    /\ returned = given + p_adjust_step_size_voltage
                    /\ returned # given
                    /\ Last(money_array') = Last(money_array)
                    /\ Last(storage_array') = battery_soc
              /\ v > voltage_max =>
                    /\ returned = given - p_adjust_step_size_voltage
                    /\ returned # given
                    /\ Last(money_array') = Last(money_array)
                    /\ Last(storage_array') = battery_soc
              /\ (voltage_min <= v /\ v <= voltage_max) =>
                    /\ branch' = "case4" => returned = given
                    /\ branch' \in {"case1", "case2", "case3"} =>
                           returned = SumPorts({i \in Cars : status_cars'[i][time_index] = 1})
                    /\ branch' \in {"sell", "sell_full", "store", "idle"} => returned = 0
      ]_vars

\* a run all of whose steps had the voltage below voltage_min: the series
\* has climbed by one voltage step per step, budget and SoC have not moved
C30_Witness ==
    /\ time_index = NumSteps
    /\ \A k \in 1..Len(power_setpoint_array) :
          power_setpoint_array[k] = (k - 1) * p_adjust_step_size_voltage
    /\ \A k \in 1..Len(money_array) : money_array[k] = initial_money
    /\ \A k \in 1..Len(storage_array) : storage_array[k] = initial_soc
    /\ cond.voltage < voltage_min

====
